---- MODULE Spec2Model ----
(***************************************************************************)
(* ComixConvert: the batch conversion pipeline of src/main.py (the final   *)
(* variant) as a state machine.                                            *)
(*                                                                         *)
(*   - file names are sequences of one-character strings, so that          *)
(*     lower-casing, suffix extraction and the natural sort key are        *)
(*     computed the way the code computes them;                            *)
(*   - ConvertWorker.run is a sequential process (w_pc) whose emitted Qt   *)
(*     signals are recorded, in order, in `emitted`;                       *)
(*   - MainWindow is the set of UI handlers that can run between two       *)
(*     worker steps;                                                       *)
(*   - the output folder is the set of files the batch has written, each   *)
(*     with the item that wrote it last and whether the write completed;   *)
(*   - convert_to_jpegs and build_epub_from_images (of src/main.py and of  *)
(*     the earlier variant src/ComixConvert.py) are also modelled call by  *)
(*     call, down to the names, the package document and the archive       *)
(*     entries they produce.                                               *)
(***************************************************************************)
EXTENDS Integers, Sequences, FiniteSets, TLC

(***************************************************************************)
(* Bounds of the model.                                                    *)
(***************************************************************************)
\* largest number of directory entries in an extracted tree (collect_images)
MaxEntries == 3
\* largest number of images an extraction yields in a batch run
MaxImgs == 2
\* largest batch of the summary specification
MaxBatch == 11

(***************************************************************************)
(* Characters and strings.                                                 *)
(***************************************************************************)
UpperChars == <<"A","B","C","D","E","F","G","H","I","J","K","L","M",
                "N","O","P","Q","R","S","T","U","V","W","X","Y","Z">>
LowerChars == <<"a","b","c","d","e","f","g","h","i","j","k","l","m",
                "n","o","p","q","r","s","t","u","v","w","x","y","z">>
DigitChars == <<"0","1","2","3","4","5","6","7","8","9">>

\* code point order of the characters the model uses: '.' < digits < upper < lower
CodeOrder == <<".">> \o DigitChars \o UpperChars \o LowerChars

IndexOf(seq, c) == CHOOSE i \in 1..Len(seq) : seq[i] = c

Ord(c) == IndexOf(CodeOrder, c)

\* str.isdigit / the regular expression class \d, one character
IsDigit(c) == \E i \in 1..Len(DigitChars) : DigitChars[i] = c

DigitVal(c) == IndexOf(DigitChars, c) - 1

\* str.lower, one character
LowerChar(c) ==
    IF \E i \in 1..Len(UpperChars) : UpperChars[i] = c
    THEN LowerChars[IndexOf(UpperChars, c)]
    ELSE c

\* str.lower
Lower(s) == [i \in 1..Len(s) |-> LowerChar(s[i])]

\* int(t) of a run of decimal digits (leading zeros carry no value)
RECURSIVE IntOf(_)
IntOf(d) ==
    IF d = <<>> THEN 0
    ELSE 10 * IntOf(SubSeq(d, 1, Len(d) - 1)) + DigitVal(d[Len(d)])

\* str(n) for n >= 0
RECURSIVE StrOf(_)
StrOf(n) ==
    IF n < 10 THEN <<DigitChars[n + 1]>>
    ELSE StrOf(n \div 10) \o <<DigitChars[(n % 10) + 1]>>

\* lexicographic order of two strings by code point (Python str <)
RECURSIVE StrLess(_, _)
StrLess(a, b) ==
    IF b = <<>> THEN FALSE
    ELSE IF a = <<>> THEN TRUE
    ELSE IF a[1] # b[1] THEN Ord(a[1]) < Ord(b[1])
    ELSE StrLess(Tail(a), Tail(b))

\* length of the longest prefix of s made of digits (dig) or of non-digits
RECURSIVE RunLen(_, _)
RunLen(s, dig) ==
    IF s = <<>> \/ IsDigit(s[1]) # dig THEN 0
    ELSE 1 + RunLen(Tail(s), dig)

\* _NSRE.split(s) with the digit runs converted: text, int, text, int, ..., text
RECURSIVE SplitRuns(_)
SplitRuns(s) ==
    LET t == RunLen(s, FALSE)
        rest == SubSeq(s, t + 1, Len(s))
        d == RunLen(rest, TRUE)
    IN  IF rest = <<>> THEN << SubSeq(s, 1, t) >>
        ELSE << SubSeq(s, 1, t), IntOf(SubSeq(rest, 1, d)) >>
             \o SplitRuns(SubSeq(rest, d + 1, Len(rest)))

\* a key that leaves the digit runs inside the text (a plain lower-case sort)
plain_key(p) == << Lower(p.name) >>

\* the key of a path: text runs at odd positions, integers at even positions
natural_key(p) == SplitRuns(Lower(p.name))

\* Python's list order on two keys (text runs by code point, numbers by value,
\* a proper prefix first)
RECURSIVE KeyLess(_, _, _)
KeyLess(a, b, i) ==
    IF i > Len(b) THEN FALSE
    ELSE IF i > Len(a) THEN TRUE
    ELSE IF a[i] = b[i] THEN KeyLess(a, b, i + 1)
    ELSE IF i % 2 = 1 THEN StrLess(a[i], b[i])
    ELSE a[i] < b[i]

\* the comparison list.sort(key=natural_key) makes between two elements
PathLess(p, q) == KeyLess(natural_key(p), natural_key(q), 1)

\* list.sort is stable: x goes after every element that is not greater
RECURSIVE InsertSorted(_, _)
InsertSorted(sorted, x) ==
    IF sorted = <<>> THEN <<x>>
    ELSE IF PathLess(x, sorted[1]) THEN <<x>> \o sorted
    ELSE <<sorted[1]>> \o InsertSorted(Tail(sorted), x)

RECURSIVE SortByNaturalKey(_)
SortByNaturalKey(seq) ==
    IF seq = <<>> THEN <<>>
    ELSE InsertSorted(SortByNaturalKey(SubSeq(seq, 1, Len(seq) - 1)), seq[Len(seq)])

\* pathlib's PurePath.suffix: from the last dot, unless the dot is the first
\* or the last character of the name
RECURSIVE LastDot(_, _)
LastDot(s, i) ==
    IF i = 0 THEN 0
    ELSE IF s[i] = "." THEN i
    ELSE LastDot(s, i - 1)

Suffix(name) ==
    LET i == LastDot(name, Len(name))
    IN  IF 1 < i /\ i < Len(name) THEN SubSeq(name, i, Len(name)) ELSE <<>>

\* pathlib's PurePath.stem
Stem(name) ==
    LET i == LastDot(name, Len(name))
    IN  IF 1 < i /\ i < Len(name) THEN SubSeq(name, 1, i - 1) ELSE name

SUPPORTED_EXTS == { <<".","c","b","z">>, <<".","c","b","r">>,
                    <<".","z","i","p">>, <<".","r","a","r">> }

IMAGE_EXTS == { <<".","j","p","g">>, <<".","j","p","e","g">>, <<".","p","n","g">>,
                <<".","w","e","b","p">>, <<".","b","m","p">>, <<".","t","i","f">>,
                <<".","t","i","f","f">> }

\* the filter of collect_images
IsImageFile(p) == p.is_file /\ Lower(Suffix(p.name)) \in IMAGE_EXTS

\* collect_images over the entries of root.rglob("*"), in the order `walk`
collect_images(walk) == SortByNaturalKey(SelectSeq(walk, IsImageFile))

\* find_archives_in_folder over the entries of folder.rglob("*"), in the order `walk`
IsArchiveFile(p) == p.is_file /\ Lower(Suffix(p.name)) \in SUPPORTED_EXTS

find_archives_in_folder(walk) == SortByNaturalKey(SelectSeq(walk, IsArchiveFile))

(***************************************************************************)
(* The file system the user picks archives from, and the extracted trees.  *)
(***************************************************************************)
File(d, n) == [dir |-> d, name |-> n, is_file |-> TRUE]
Folder(d, n) == [dir |-> d, name |-> n, is_file |-> FALSE]

CBZ == <<".","c","b","z">>

\* the archive <dir>/c<i>.cbz
ArchiveNo(d, i) == File(d, <<"c">> \o StrOf(i) \o CBZ)

\* the folder "a" of the disk: two archives (one with an upper-case extension)
\* and a file that is no archive
FolderA == Folder("", <<"a">>)
FolderAEntries == { ArchiveNo("a", 2),
                    File("a", <<"c","1","0",".","C","B","Z">>),
                    File("a", <<"n",".","t","x","t">>) }

\* what one drop or one file dialog can hand to add_paths in the batch model
PathInputs == { <<p>> : p \in FolderAEntries \cup {FolderA} }

\* the entries an extracted tree can hold: page images in the root and in a
\* sub-directory, upper-case names and extensions, leading zeros, a hidden
\* file, a directory with an image name, and files that are no image
TreeEntries ==
    { File("x", <<"p","1",".","j","p","g">>),
      File("x", <<"p","2",".","j","p","g">>),
      File("x", <<"p","1","0",".","j","p","g">>),
      File("x", <<"P","0","2",".","J","P","G">>),
      File("x/s", <<"p","2",".","j","p","g">>),
      File("x", <<"1","0",".","w","e","b","p">>),
      File("x", <<"p","1",".","t","x","t">>),
      File("x", <<".","j","p","g">>),
      Folder("x", <<"d","1",".","p","n","g">>) }

\* every order in which a directory walk can enumerate the set S
Perms(S) ==
    { w \in [1..Cardinality(S) -> S] :
        \A i, j \in 1..Cardinality(S) : i # j => w[i] # w[j] }

SetOf(seq) == { seq[i] : i \in 1..Len(seq) }

(***************************************************************************)
(* State.                                                                  *)
(***************************************************************************)
VARIABLES
    \* MainWindow
    seven_zip,        \* find_7z_exe(): "none" or the path of the executable
    files,            \* self.files, the work queue
    chk_pdf, chk_epub, chk_cover, chk_skip_cover_page,   \* check boxes
    slider,           \* JPEG quality slider
    btn_convert,      \* the convert button is enabled
    inputs_enabled,   \* the other widgets _set_busy switches are enabled
    startup_log,      \* the line __init__ writes to the log box
    finished_sig,     \* finished signals emitted and not yet delivered
    \* ConvertWorker
    worker,           \* the constructor's fields, or NoWorker
    w_pc,             \* position of run()
    ok, fail, failures, total, idx,    \* locals of run()
    n_imgs,           \* len(imgs) of the current item
    img_i,            \* loop index of convert_to_jpegs
    exc,              \* the exception propagating out of the with block, or ""
    tmpdirs,          \* the scratch workspaces that exist, by owning item
    jpeg_dir,         \* the files convert_to_jpegs has saved in the workspace
    outputs,          \* the files of the output folder the batch has written
    emitted,          \* the signals run() has emitted, in order
    stage_log,        \* the stage calls run() has made: <<item, stage>>
    result,           \* terminal state of the items counted so far
    \* collect_images on two walks of one extracted tree
    walk1, walk2, imgs1, imgs2, c_pc,
    \* one call of convert_to_jpegs
    images,           \* the argument `images`
    out_files,        \* the list the call builds and returns
    out_dir,          \* the files the call has saved in its output directory
    on_step,          \* the calls of the callback: <<cur, total, name>>
    j_i,              \* the loop index i
    j_pc,             \* "off", "loop", "returned" or "raised"
    \* calls of build_epub_from_images
    epubs,            \* what each call so far has built, in call order
    uuids             \* the number of uuid.uuid4() tokens drawn so far

ui_vars == <<seven_zip, files, chk_pdf, chk_epub, chk_cover, chk_skip_cover_page,
             slider, btn_convert, inputs_enabled, startup_log, finished_sig>>
w_vars == <<worker, w_pc, ok, fail, failures, total, idx, n_imgs, img_i, exc,
            tmpdirs, jpeg_dir, outputs, emitted, stage_log, result>>
c_vars == <<walk1, walk2, imgs1, imgs2, c_pc>>
j_vars == <<images, out_files, out_dir, on_step, j_i, j_pc>>
e_vars == <<epubs, uuids>>
vars == <<ui_vars, w_vars, c_vars, j_vars, e_vars>>

(***************************************************************************)
(* Program constants.                                                      *)
(***************************************************************************)
\* self._slider.setRange(40, 100); self._slider.setValue(85)
MinQuality == 40
MaxQuality == 100
DefaultQuality == 85
\* failures[:10] of the end-of-batch summary
SummaryLimit == 10

SliderValues == {MinQuality, DefaultQuality}

\* str(e) of the exceptions the stages raise
MsgExtract == "7-Zip extraction failed."
MsgNoImages == "No images found after extraction."
MsgDecode == "cannot identify image file"
MsgPdf == "PDF build failed"
MsgEpub == "EPUB build failed"

NoWorker == [files |-> <<>>, out_dir |-> "", quality |-> 0, export_pdf |-> FALSE,
             export_epub |-> FALSE, epub_cover |-> FALSE,
             epub_skip_cover_page |-> FALSE, seven_zip |-> "none"]

\* one emitted signal: sig is the signal, tag the kind of text it carries,
\* a and b its integers, name a file name, msg an error text
Ev(sig, tag, a, b, name, msg) ==
    [sig |-> sig, tag |-> tag, a |-> a, b |-> b, name |-> name, msg |-> msg]

Log(tag, a, b, name, msg) == Ev("log", tag, a, b, name, msg)
Status(tag, a, b) == Ev("status", tag, a, b, <<>>, "")
Progress(cur, tot) == Ev("progress", "", cur, tot, <<>>, "")
SubProgress(cur, tot) == Ev("subprogress", "", cur, tot, <<>>, "")
Finished(nok, nfail) == Ev("finished", "", nok, nfail, <<>>, "")

\* the name of the i-th image collect_images returns for an extracted archive
ImgName(i) == <<"p">> \o StrOf(i) \o <<".","p","n","g">>

(***************************************************************************)
(* MainWindow.                                                             *)
(***************************************************************************)
\* a window that takes the extraction tool for granted
ExtractionAssumed(sz) == TRUE

\* `if not self.seven_zip` of __init__ and of start_convert, negated
ExtractionAvailable(sz) == sz # "none"

\* the worker's locals and history before run() starts
WorkerReset ==
    /\ ok' = 0 /\ fail' = 0 /\ failures' = <<>> /\ total' = 0 /\ idx' = 0
    /\ n_imgs' = 0 /\ img_i' = 0 /\ exc' = "" /\ tmpdirs' = {}
    /\ jpeg_dir' = <<>> /\ outputs' = {}
    /\ emitted' = <<>> /\ stage_log' = <<>> /\ result' = <<>>

CollectIdle ==
    /\ walk1 = <<>> /\ walk2 = <<>> /\ imgs1 = <<>> /\ imgs2 = <<>> /\ c_pc = "off"

\* MainWindow.__init__
MainWindowInit ==
    /\ seven_zip \in {"none", "7z"}
    /\ files = <<>>
    /\ chk_pdf = TRUE /\ chk_epub = FALSE
    /\ chk_cover = TRUE /\ chk_skip_cover_page = TRUE
    /\ slider = DefaultQuality
    /\ btn_convert = ExtractionAvailable(seven_zip)
    /\ inputs_enabled = TRUE
    /\ startup_log = IF ExtractionAvailable(seven_zip) THEN "ready" ELSE "warning_no_7z"
    /\ finished_sig = <<>>
    /\ worker = NoWorker /\ w_pc = "none"
    /\ ok = 0 /\ fail = 0 /\ failures = <<>> /\ total = 0 /\ idx = 0
    /\ n_imgs = 0 /\ img_i = 0 /\ exc = "" /\ tmpdirs = {}
    /\ jpeg_dir = <<>> /\ outputs = {}
    /\ emitted = <<>> /\ stage_log = <<>> /\ result = <<>>

JpegsIdle ==
    /\ images = <<>> /\ out_files = <<>> /\ out_dir = {} /\ on_step = <<>>
    /\ j_i = 0 /\ j_pc = "off"

EpubIdle == epubs = <<>> /\ uuids = 0

Init == MainWindowInit /\ CollectIdle /\ JpegsIdle /\ EpubIdle

\* the inner loop of add_paths over the archives found in a folder
RECURSIVE AppendNew(_, _)
AppendNew(fs, cands) ==
    IF cands = <<>> THEN fs
    ELSE AppendNew(IF cands[1] \in SetOf(fs) THEN fs ELSE Append(fs, cands[1]),
                   Tail(cands))

\* the loop of add_paths; `walk` is the order in which a folder is enumerated
RECURSIVE AddEach(_, _, _)
AddEach(fs, paths, walk) ==
    IF paths = <<>> THEN fs
    ELSE LET p == paths[1]
             fs2 == IF ~p.is_file THEN AppendNew(fs, find_archives_in_folder(walk))
                    ELSE IF Lower(Suffix(p.name)) \in SUPPORTED_EXTS /\ p \notin SetOf(fs)
                         THEN Append(fs, p)
                         ELSE fs
         IN  AddEach(fs2, Tail(paths), walk)

\* the queue add_paths leaves: the new items appended, then self.files.sort
add_paths(fs, paths, walk) == SortByNaturalKey(AddEach(fs, paths, walk))

\* the orders in which add_paths can see the folder of `paths` enumerated
Walks(paths) ==
    IF \E i \in 1..Len(paths) : ~paths[i].is_file THEN Perms(FolderAEntries)
    ELSE { <<>> }

\* DropZone.dropEvent -> add_paths: the drop zone is never disabled
DropPaths ==
    /\ \E paths \in PathInputs : \E walk \in Walks(paths) :
         files' = add_paths(files, paths, walk)
    /\ UNCHANGED <<seven_zip, chk_pdf, chk_epub, chk_cover, chk_skip_cover_page,
                   slider, btn_convert, inputs_enabled, startup_log,
                   finished_sig, w_vars, c_vars, j_vars, e_vars>>

\* select_files / select_folder -> add_paths, from the two buttons
SelectPaths ==
    /\ inputs_enabled
    /\ \E paths \in PathInputs : \E walk \in Walks(paths) :
         files' = add_paths(files, paths, walk)
    /\ UNCHANGED <<seven_zip, chk_pdf, chk_epub, chk_cover, chk_skip_cover_page,
                   slider, btn_convert, inputs_enabled, startup_log,
                   finished_sig, w_vars, c_vars, j_vars, e_vars>>

\* remove_selected with a non-empty selection of the queue list
RemoveSelected ==
    /\ inputs_enabled
    /\ \E sel \in SUBSET SetOf(files) :
         /\ sel # {}
         /\ files' = SelectSeq(files, LAMBDA p : p \notin sel)
    /\ UNCHANGED <<seven_zip, chk_pdf, chk_epub, chk_cover, chk_skip_cover_page,
                   slider, btn_convert, inputs_enabled, startup_log,
                   finished_sig, w_vars, c_vars, j_vars, e_vars>>

\* clear_list
ClearList ==
    /\ inputs_enabled
    /\ files' = <<>>
    /\ UNCHANGED <<seven_zip, chk_pdf, chk_epub, chk_cover, chk_skip_cover_page,
                   slider, btn_convert, inputs_enabled, startup_log,
                   finished_sig, w_vars, c_vars, j_vars, e_vars>>

\* the user changes one option widget (all are disabled while a batch runs)
ToggleOption ==
    /\ inputs_enabled
    /\ \/ chk_pdf' = ~chk_pdf
          /\ UNCHANGED <<chk_epub, chk_cover, chk_skip_cover_page, slider>>
       \/ chk_epub' = ~chk_epub
          /\ UNCHANGED <<chk_pdf, chk_cover, chk_skip_cover_page, slider>>
       \/ chk_cover' = ~chk_cover
          /\ UNCHANGED <<chk_pdf, chk_epub, chk_skip_cover_page, slider>>
       \/ chk_skip_cover_page' = ~chk_skip_cover_page
          /\ UNCHANGED <<chk_pdf, chk_epub, chk_cover, slider>>
       \/ \E q \in SliderValues \ {slider} :
            slider' = q
          /\ UNCHANGED <<chk_pdf, chk_epub, chk_cover, chk_skip_cover_page>>
    /\ UNCHANGED <<seven_zip, files, btn_convert, inputs_enabled, startup_log,
                   finished_sig, w_vars, c_vars, j_vars, e_vars>>

\* the ConvertWorker start_convert constructs
NewWorker ==
    [files |-> files, out_dir |-> "out", quality |-> slider,
     export_pdf |-> chk_pdf, export_epub |-> chk_epub, epub_cover |-> chk_cover,
     epub_skip_cover_page |-> chk_cover /\ chk_skip_cover_page,
     seven_zip |-> seven_zip]

\* a _set_busy that leaves the convert button enabled
SetBusyKeepsConvert(busy) == TRUE

\* _set_busy: self._btn_convert.setEnabled(not busy)
SetBusy(busy) == ~busy

\* start_convert, on a click of the (enabled) convert button. The three
\* guards show a modal message box and return; otherwise an output folder is
\* chosen in the dialog (a cancelled dialog changes nothing) and the worker
\* is started
StartConvert ==
    /\ btn_convert
    /\ IF \/ files = <<>>
          \/ ~chk_pdf /\ ~chk_epub
          \/ ~ExtractionAvailable(seven_zip)
       THEN UNCHANGED <<btn_convert, inputs_enabled, w_vars>>
       ELSE /\ btn_convert' = SetBusy(TRUE)
            /\ inputs_enabled' = FALSE
            /\ worker' = NewWorker
            /\ w_pc' = "start"
            /\ WorkerReset
    /\ UNCHANGED <<seven_zip, files, chk_pdf, chk_epub, chk_cover, chk_skip_cover_page,
                   slider, startup_log, finished_sig, c_vars, j_vars, e_vars>>

\* _on_convert_finished, when the queued finished signal is delivered; the
\* worker object is then deleted (finished.connect(self._worker.deleteLater))
OnConvertFinished ==
    /\ finished_sig # <<>>
    /\ btn_convert' = SetBusy(FALSE)
    /\ inputs_enabled' = TRUE
    /\ finished_sig' = Tail(finished_sig)
    /\ worker' = NoWorker /\ w_pc' = "none"
    /\ WorkerReset
    /\ UNCHANGED <<seven_zip, files, chk_pdf, chk_epub, chk_cover, chk_skip_cover_page,
                   slider, startup_log, c_vars, j_vars, e_vars>>

(***************************************************************************)
(* ConvertWorker.run.                                                      *)
(***************************************************************************)
ui_static == <<seven_zip, files, chk_pdf, chk_epub, chk_cover, chk_skip_cover_page,
               slider, btn_convert, inputs_enabled, startup_log>>

\* a worker that iterates the window's list instead of its own copy
ArchiveOfQueue(i) == files[i]

\* the i-th element of self.files, the copy list(self.files) the worker got
Archive(i) == worker.files[i]

\* the start-of-batch summary, subprogress(0, 0) and the first status
StartEvents(w) ==
    << Log("sep", 0, 0, <<>>, ""),
       Log("output", 0, 0, <<>>, w.out_dir),
       Log("quality", w.quality, 0, <<>>, ""),
       Log("export", 0, 0, <<>>, ""),
       Log("items", Len(w.files), 0, <<>>, ""),
       Log("sep", 0, 0, <<>>, ""),
       SubProgress(0, 0),
       Status("starting", 0, 0) >>

\* self.progress.emit(idx - 1, total) at the head of the loop body
ProgressBefore(i, tot) == Progress(i - 1, tot)

\* a stale value in the progress event after an item
ProgressAfterStale(i, tot) == Progress(i - 1, tot)

\* self.progress.emit(idx, total) of the success path and of the except block
ProgressAfter(i, tot) == Progress(i, tot)

\* tempfile.TemporaryDirectory(): __enter__ creates the workspace
TmpCreate(tmp, i) == tmp \cup {i}

\* a workspace made with mkdtemp and never removed
TmpLeaked(tmp, i) == tmp

\* tempfile.TemporaryDirectory(): leaving the with block removes the workspace
TmpAfterExit(tmp, i) == tmp \ {i}

\* the next iteration of `for idx, archive in enumerate(self.files, start=1)`
NextItem(i, tot) == i + 1

\* a PDF block that ignores the export flag
PdfAlways(w) == TRUE

\* `if self.export_pdf` and `if self.export_epub`
PdfEnabled(w) == w.export_pdf
EpubEnabled(w) == w.export_epub

\* the counters of the success path and of the except block
CountOk(n) == n + 1
CountFail(n) == n + 1

\* an except block that counts the failure and forgets to record it
RecordFailureDropped(fl, name, msg) == fl

\* failures.append((archive.name, str(e)))
RecordFailure(fl, name, msg) == Append(fl, [name |-> name, msg |-> msg])

\* on_step(cur, tot, name) -> step(): subprogress, then status
StepEvents(cur, tot, name) ==
    << SubProgress(cur, tot), Ev("status", "jpeg", cur, tot, name, "") >>

\* `for name, err in failures[:10]: log_line.emit(...)`
SummaryLines(fl) ==
    [k \in 1..(IF Len(fl) < SummaryLimit THEN Len(fl) ELSE SummaryLimit) |->
        Log("failure", k, 0, fl[k].name, fl[k].msg)]

\* a run() that signals finished before its last status and sub-progress
EndEventsFinishedEarly(nok, nfail, fl) ==
    << Log("dash", 0, 0, <<>>, ""), Log("done", nok, nfail, <<>>, "") >>
    \o SummaryLines(fl)
    \o << Log("dash", 0, 0, <<>>, ""),
          Finished(nok, nfail),
          Status("ready", 0, 0),
          SubProgress(0, 0) >>

\* the end-of-batch summary, the last status, subprogress(0, 0) and finished
EndEvents(nok, nfail, fl) ==
    << Log("dash", 0, 0, <<>>, ""), Log("done", nok, nfail, <<>>, "") >>
    \o SummaryLines(fl)
    \o << Log("dash", 0, 0, <<>>, ""),
          Status("ready", 0, 0),
          SubProgress(0, 0),
          Finished(nok, nfail) >>

\* width of the number in f"{i:05d}"
PadWidth == 5

\* format(n, "0<w>d"): zeros on the left up to the width, never a cut
RECURSIVE ZeroPad(_, _)
ZeroPad(s, w) == IF Len(s) >= w THEN s ELSE ZeroPad(<<"0">> \o s, w)

JPG == <<".","j","p","g">>

\* an output name made of the bare number
OutNameUnpadded(i) == StrOf(i) \o JPG

\* out_name = f"{i:05d}.jpg"
OutName(i) == ZeroPad(StrOf(i), PadWidth) \o JPG

\* out_pdf.name and out_epub.name: archive.stem + ".pdf", archive.stem + ".epub"
PdfName(archive) == Stem(archive.name) \o <<".","p","d","f">>
EpubName(archive) == Stem(archive.name) \o <<".","e","p","u","b">>

\* a file of the output folder: the item that wrote it last, and whether the
\* write ran to completion
OutFile(name, item, whole) == [name |-> name, item |-> item, whole |-> whole]

\* open(path, "wb") / ZipFile(path, "w"): the path is created, or the file
\* that was there is replaced
WriteFile(dir, f) == { g \in dir : g.name # f.name } \cup {f}

\* where images_to_pdf can raise: in open(), or in img2pdf.convert / f.write
\* once the file is open
PdfFailPoints == {"open", "convert"}

\* images_to_pdf on the output folder `dir`; raised = "" when it returns
images_to_pdf(dir, out_pdf, item, raised) ==
    IF raised = "open" THEN dir
    ELSE WriteFile(dir, OutFile(out_pdf, item, raised = ""))

\* where build_epub_from_images can raise: while the tree is built in its own
\* temporary directory, or in z.write once ZipFile(out_epub, "w") is open
EpubFailPoints == {"tree", "zip"}

\* the effect of build_epub_from_images on the output folder `dir`
EpubFile(dir, out_epub, item, raised) ==
    IF raised = "tree" THEN dir
    ELSE WriteFile(dir, OutFile(out_epub, item, raised = ""))

\* run() up to the loop
RunStart ==
    /\ w_pc = "start"
    /\ ok' = 0 /\ fail' = 0 /\ failures' = <<>>
    /\ total' = Len(worker.files)
    /\ idx' = 1
    /\ emitted' = emitted \o StartEvents(worker)
    /\ w_pc' = "loop"
    /\ UNCHANGED <<worker, n_imgs, img_i, exc, tmpdirs, jpeg_dir, outputs, stage_log, result,
                   ui_static, finished_sig, c_vars, j_vars, e_vars>>

\* the head of the loop body: file progress, status, log, and the scratch
\* workspace with its two sub-directories
ItemBegin ==
    /\ w_pc = "loop" /\ idx <= total
    /\ emitted' = emitted \o << ProgressBefore(idx, total),
                                Status("extracting", idx, total),
                                Log("extract", idx, total, Archive(idx).name, "") >>
    /\ tmpdirs' = TmpCreate(tmpdirs, idx)
    /\ jpeg_dir' = <<>>
    /\ w_pc' = "extract"
    /\ UNCHANGED <<worker, ok, fail, failures, total, idx, n_imgs, img_i, exc,
                   outputs, stage_log, result, ui_static, finished_sig, c_vars, j_vars, e_vars>>

\* run_7z_extract returns: the tree holds n image files
ExtractOk(n) ==
    /\ w_pc = "extract"
    /\ stage_log' = Append(stage_log, <<idx, "extract">>)
    /\ n_imgs' = n
    /\ w_pc' = "collect"
    /\ UNCHANGED <<worker, ok, fail, failures, total, idx, img_i, exc, tmpdirs, jpeg_dir, outputs,
                   emitted, result, ui_static, finished_sig, c_vars, j_vars, e_vars>>

\* run_7z_extract raises (7z exits with a non-zero status)
ExtractFail ==
    /\ w_pc = "extract"
    /\ stage_log' = Append(stage_log, <<idx, "extract">>)
    /\ exc' = MsgExtract
    /\ w_pc' = "exit_with"
    /\ UNCHANGED <<worker, ok, fail, failures, total, idx, n_imgs, img_i, tmpdirs, jpeg_dir, outputs,
                   emitted, result, ui_static, finished_sig, c_vars, j_vars, e_vars>>

\* a run() that hands an empty list on to the next stages
NoImagesIgnored(n) == FALSE

\* `if not imgs`
NoImages(n) == n = 0

\* collect_images, the empty check, and the events before convert_to_jpegs
Collect ==
    /\ w_pc = "collect"
    /\ stage_log' = Append(stage_log, <<idx, "collect">>)
    /\ IF NoImages(n_imgs)
       THEN /\ exc' = MsgNoImages
            /\ w_pc' = "exit_with"
            /\ UNCHANGED <<emitted, img_i>>
       ELSE /\ emitted' = emitted \o << Log("images", n_imgs, worker.quality, <<>>, ""),
                                        Status("converting", idx, total),
                                        SubProgress(0, n_imgs) >>
            /\ img_i' = 1
            /\ w_pc' = "jpeg"
            /\ UNCHANGED exc
    /\ UNCHANGED <<worker, ok, fail, failures, total, idx, n_imgs, tmpdirs, jpeg_dir, outputs,
                   result, ui_static, finished_sig, c_vars, j_vars, e_vars>>

\* the stage call convert_to_jpegs is logged when its first iteration starts
NormalizeCalled == IF img_i = 1 THEN Append(stage_log, <<idx, "normalize">>) ELSE stage_log

\* one iteration of convert_to_jpegs: callback, decode, save, callback
JpegOk ==
    /\ w_pc = "jpeg"
    /\ stage_log' = NormalizeCalled
    /\ emitted' = emitted \o StepEvents(img_i - 1, n_imgs, ImgName(img_i))
                          \o StepEvents(img_i, n_imgs, ImgName(img_i))
    /\ jpeg_dir' = Append(jpeg_dir, OutName(img_i))
    /\ img_i' = img_i + 1
    /\ w_pc' = IF img_i = n_imgs THEN "pdf" ELSE "jpeg"
    /\ UNCHANGED <<worker, ok, fail, failures, total, idx, n_imgs, exc, tmpdirs, outputs,
                   result, ui_static, finished_sig, c_vars, j_vars, e_vars>>

\* a loop that goes on after an image it could not decode
DecodeErrorSkipped(i, n) == IF i = n THEN "pdf" ELSE "jpeg"

\* nothing in convert_to_jpegs or in the with block catches the exception:
\* control leaves the loop, the call and the with block
DecodeErrorRaised(i, n) == "exit_with"

\* one iteration of convert_to_jpegs in which Image.open or convert raises
JpegFail ==
    /\ w_pc = "jpeg"
    /\ stage_log' = NormalizeCalled
    /\ emitted' = emitted \o StepEvents(img_i - 1, n_imgs, ImgName(img_i))
    /\ exc' = MsgDecode
    /\ w_pc' = DecodeErrorRaised(img_i, n_imgs)
    /\ UNCHANGED <<worker, ok, fail, failures, total, idx, n_imgs, img_i, tmpdirs, jpeg_dir, outputs,
                   result, ui_static, finished_sig, c_vars, j_vars, e_vars>>

\* the events of the PDF block, after subprogress(0, 0)
PdfEvents ==
    << SubProgress(0, 0) >> \o
    (IF PdfEnabled(worker)
     THEN << Status("building_pdf", idx, total),
             Log("build_pdf", 0, 0, Stem(Archive(idx).name), "") >>
     ELSE << >>)

\* subprogress(0, 0), then the PDF block: images_to_pdf returns, or is skipped
PdfStage ==
    /\ w_pc = "pdf"
    /\ emitted' = emitted \o PdfEvents
    /\ stage_log' = IF PdfEnabled(worker) THEN Append(stage_log, <<idx, "pdf">>)
                    ELSE stage_log
    /\ outputs' = IF PdfEnabled(worker)
                  THEN images_to_pdf(outputs, PdfName(Archive(idx)), idx, "")
                  ELSE outputs
    /\ w_pc' = "epub"
    /\ UNCHANGED <<worker, ok, fail, failures, total, idx, n_imgs, img_i, exc, tmpdirs, jpeg_dir,
                   result, ui_static, finished_sig, c_vars, j_vars, e_vars>>

\* images_to_pdf raises at the point `at`
PdfFail(at) ==
    /\ w_pc = "pdf"
    /\ PdfEnabled(worker)
    /\ emitted' = emitted \o PdfEvents
    /\ stage_log' = Append(stage_log, <<idx, "pdf">>)
    /\ outputs' = images_to_pdf(outputs, PdfName(Archive(idx)), idx, at)
    /\ exc' = MsgPdf
    /\ w_pc' = "exit_with"
    /\ UNCHANGED <<worker, ok, fail, failures, total, idx, n_imgs, img_i, tmpdirs, jpeg_dir,
                   result, ui_static, finished_sig, c_vars, j_vars, e_vars>>

\* the events of the EPUB block
EpubEvents ==
    IF EpubEnabled(worker)
    THEN << Status("building_epub", idx, total),
            Log("build_epub", 0, 0, Stem(Archive(idx).name), "") >>
    ELSE << >>

\* the EPUB block: build_epub_from_images returns, or is skipped
EpubStage ==
    /\ w_pc = "epub"
    /\ emitted' = emitted \o EpubEvents
    /\ stage_log' = IF EpubEnabled(worker) THEN Append(stage_log, <<idx, "epub">>)
                    ELSE stage_log
    /\ outputs' = IF EpubEnabled(worker)
                  THEN EpubFile(outputs, EpubName(Archive(idx)), idx, "")
                  ELSE outputs
    /\ w_pc' = "exit_with"
    /\ UNCHANGED <<worker, ok, fail, failures, total, idx, n_imgs, img_i, exc, tmpdirs, jpeg_dir,
                   result, ui_static, finished_sig, c_vars, j_vars, e_vars>>

\* build_epub_from_images raises at the point `at`
EpubFail(at) ==
    /\ w_pc = "epub"
    /\ EpubEnabled(worker)
    /\ emitted' = emitted \o EpubEvents
    /\ stage_log' = Append(stage_log, <<idx, "epub">>)
    /\ outputs' = EpubFile(outputs, EpubName(Archive(idx)), idx, at)
    /\ exc' = MsgEpub
    /\ w_pc' = "exit_with"
    /\ UNCHANGED <<worker, ok, fail, failures, total, idx, n_imgs, img_i, tmpdirs, jpeg_dir,
                   result, ui_static, finished_sig, c_vars, j_vars, e_vars>>

\* control leaves the with block, normally or with the exception in flight:
\* TemporaryDirectory.__exit__ removes the workspace before the statement
\* after the block, or the except block, runs (the library's cleanup is taken
\* to succeed)
WithExit ==
    /\ w_pc = "exit_with"
    /\ tmpdirs' = TmpAfterExit(tmpdirs, idx)
    /\ jpeg_dir' = <<>>
    /\ w_pc' = IF exc = "" THEN "item_ok" ELSE "except"
    /\ UNCHANGED <<worker, ok, fail, failures, total, idx, n_imgs, img_i, exc,
                   outputs, emitted, stage_log, result, ui_static, finished_sig, c_vars, j_vars, e_vars>>

\* the success path after the with block
ItemOk ==
    /\ w_pc = "item_ok"
    /\ emitted' = emitted \o << Status("done", idx, total),
                                Log("ok", 0, 0, <<>>, ""),
                                ProgressAfter(idx, total) >>
    /\ ok' = CountOk(ok)
    /\ result' = Append(result, "Done")
    /\ idx' = NextItem(idx, total)
    /\ w_pc' = "loop"
    /\ UNCHANGED <<worker, fail, failures, total, n_imgs, img_i, exc, tmpdirs, jpeg_dir, outputs,
                   stage_log, ui_static, finished_sig, c_vars, j_vars, e_vars>>

\* an except block that gives the batch up (a break, or a re-raise)
AbortBatch(i, tot) == tot + 1

\* the item the except block leaves the loop body for
AfterFailure(i, tot) == NextItem(i, tot)

\* `except Exception as e`
ItemFail ==
    /\ w_pc = "except"
    /\ fail' = CountFail(fail)
    /\ failures' = RecordFailure(failures, Archive(idx).name, exc)
    /\ emitted' = emitted \o << Status("failed", idx, total),
                                Log("fail", 0, 0, <<>>, exc),
                                ProgressAfter(idx, total) >>
    /\ result' = Append(result, "Failed")
    /\ exc' = ""
    /\ idx' = AfterFailure(idx, total)
    /\ w_pc' = "loop"
    /\ UNCHANGED <<worker, ok, total, n_imgs, img_i, tmpdirs, jpeg_dir, outputs,
                   stage_log, ui_static, finished_sig, c_vars, j_vars, e_vars>>

\* after the loop: the summary, then the finished signal, queued to the window
RunEnd ==
    /\ w_pc = "loop" /\ idx > total
    /\ emitted' = emitted \o EndEvents(ok, fail, failures)
    /\ finished_sig' = Append(finished_sig, Finished(ok, fail))
    /\ w_pc' = "done"
    /\ UNCHANGED <<worker, ok, fail, failures, total, idx, n_imgs, img_i, exc, tmpdirs, jpeg_dir, outputs,
                   stage_log, result, ui_static, c_vars, j_vars, e_vars>>

WorkerStep ==
    \/ RunStart
    \/ ItemBegin
    \/ \E n \in 0..MaxImgs : ExtractOk(n)
    \/ ExtractFail
    \/ Collect
    \/ JpegOk
    \/ JpegFail
    \/ PdfStage
    \/ \E at \in PdfFailPoints : PdfFail(at)
    \/ EpubStage
    \/ \E at \in EpubFailPoints : EpubFail(at)
    \/ WithExit
    \/ ItemOk
    \/ ItemFail
    \/ RunEnd

Next ==
    \/ DropPaths
    \/ SelectPaths
    \/ RemoveSelected
    \/ ClearList
    \/ ToggleOption
    \/ StartConvert
    \/ OnConvertFinished
    \/ WorkerStep

Spec == Init /\ [][Next]_vars

\* the worker thread is scheduled as long as run() has a step to take
FairSpec == Init /\ [][Next]_vars /\ WF_vars(WorkerStep)

(***************************************************************************)
(* The summary of a large batch: K archives selected at once, each of      *)
(* which fails in extraction or converts.                                  *)
(***************************************************************************)
\* select_files with the k archives b/c1.cbz .. b/ck.cbz, in the dialog's order
SelectBatch ==
    /\ inputs_enabled
    /\ \E k \in 1..MaxBatch :
         files' = add_paths(files, [i \in 1..k |-> ArchiveNo("b", k + 1 - i)], <<>>)
    /\ UNCHANGED <<seven_zip, chk_pdf, chk_epub, chk_cover, chk_skip_cover_page,
                   slider, btn_convert, inputs_enabled, startup_log,
                   finished_sig, w_vars, c_vars, j_vars, e_vars>>

InitSummary == Init /\ seven_zip = "7z"

NextSummary ==
    \/ SelectBatch
    \/ StartConvert
    \/ OnConvertFinished
    \/ RunStart
    \/ ItemBegin
    \/ ExtractOk(1)
    \/ ExtractFail
    \/ Collect
    \/ JpegOk
    \/ PdfStage
    \/ EpubStage
    \/ WithExit
    \/ ItemOk
    \/ ItemFail
    \/ RunEnd

SpecSummary == InitSummary /\ [][NextSummary]_vars

(***************************************************************************)
(* The output folder of a batch whose archives share a base name.          *)
(***************************************************************************)
\* archives with the stem c2: in two folders, and with two archive extensions
SameStemInputs == { ArchiveNo("a", 2), ArchiveNo("b", 2),
                    File("a", <<"c","2",".","z","i","p">>) }

\* select_files with one of the archives
SelectSameStem ==
    /\ inputs_enabled
    /\ \E p \in SameStemInputs : files' = add_paths(files, <<p>>, <<>>)
    /\ UNCHANGED <<seven_zip, chk_pdf, chk_epub, chk_cover, chk_skip_cover_page,
                   slider, btn_convert, inputs_enabled, startup_log,
                   finished_sig, w_vars, c_vars, j_vars, e_vars>>

\* the window with 7-Zip found, after the user has set the export check boxes
InitOutputs ==
    /\ seven_zip = "7z"
    /\ files = <<>>
    /\ chk_pdf \in BOOLEAN /\ chk_epub \in BOOLEAN
    /\ chk_cover = TRUE /\ chk_skip_cover_page = TRUE
    /\ slider = DefaultQuality
    /\ btn_convert = TRUE
    /\ inputs_enabled = TRUE
    /\ startup_log = "ready"
    /\ finished_sig = <<>>
    /\ worker = NoWorker /\ w_pc = "none"
    /\ ok = 0 /\ fail = 0 /\ failures = <<>> /\ total = 0 /\ idx = 0
    /\ n_imgs = 0 /\ img_i = 0 /\ exc = "" /\ tmpdirs = {}
    /\ jpeg_dir = <<>> /\ outputs = {}
    /\ emitted = <<>> /\ stage_log = <<>> /\ result = <<>>
    /\ CollectIdle /\ JpegsIdle /\ EpubIdle

NextOutputs ==
    \/ SelectSameStem
    \/ StartConvert
    \/ OnConvertFinished
    \/ RunStart
    \/ ItemBegin
    \/ ExtractOk(1)
    \/ ExtractFail
    \/ Collect
    \/ JpegOk
    \/ PdfStage
    \/ EpubStage
    \/ WithExit
    \/ ItemOk
    \/ ItemFail
    \/ RunEnd

SpecOutputs == InitOutputs /\ [][NextOutputs]_vars

(***************************************************************************)
(* collect_images on an extracted tree, walked in two orders.              *)
(***************************************************************************)
Trees == { S \in SUBSET TreeEntries : Cardinality(S) <= MaxEntries }

InitCollect ==
    /\ MainWindowInit /\ seven_zip = "7z"
    /\ \E S \in Trees : walk1 \in Perms(S)
    /\ walk2 = <<>> /\ imgs1 = <<>> /\ imgs2 = <<>>
    /\ c_pc = "extracted"
    /\ JpegsIdle /\ EpubIdle

\* imgs = collect_images(extract_dir)
CollectImages ==
    /\ c_pc = "extracted"
    /\ imgs1' = collect_images(walk1)
    /\ c_pc' = "collected"
    /\ UNCHANGED <<walk1, walk2, imgs2, ui_vars, w_vars, j_vars, e_vars>>

\* collect_images on the same tree, enumerated by the walk in another order
CollectAgain ==
    /\ c_pc = "collected"
    /\ \E w \in Perms(SetOf(walk1)) :
         /\ walk2' = w
         /\ imgs2' = collect_images(w)
    /\ c_pc' = "recollected"
    /\ UNCHANGED <<walk1, imgs1, ui_vars, w_vars, j_vars, e_vars>>

NextCollect == CollectImages \/ CollectAgain

SpecCollect == InitCollect /\ [][NextCollect]_vars

(***************************************************************************)
(* convert_to_jpegs on the images collected from an extracted tree.        *)
(***************************************************************************)
\* the files of the extracted trees Image.open cannot decode
Corrupt ==
    { File("x", <<"1","0",".","w","e","b","p">>),
      File("x/s", <<"p","2",".","j","p","g">>) }

Decodable(p) == p \notin Corrupt

\* a saved JPEG: its name in the output directory and the image it renders
Jpeg(name, src) == [name |-> name, src |-> src]

InitJpegs ==
    /\ MainWindowInit /\ seven_zip = "7z"
    /\ CollectIdle /\ EpubIdle
    /\ \E S \in Trees : \E w \in Perms(S) : images = collect_images(w)
    /\ out_files = <<>> /\ out_dir = {} /\ on_step = <<>>
    /\ j_i = 1 /\ j_pc = "loop"

\* a callback that reports the index before the image both times
StepCallsStale(i, tot, name) == << <<i - 1, tot, name>>, <<i - 1, tot, name>> >>

\* on_step(i - 1, total, img_path.name) before the image is opened and
\* on_step(i, total, img_path.name) after it is saved
StepCalls(i, tot, name) == << <<i - 1, tot, name>>, <<i, tot, name>> >>

\* one iteration of the loop in which the image is decoded and saved
ConvertImage ==
    /\ j_pc = "loop" /\ j_i <= Len(images)
    /\ Decodable(images[j_i])
    /\ out_dir' = WriteFile(out_dir, Jpeg(OutName(j_i), images[j_i]))
    /\ out_files' = Append(out_files, OutName(j_i))
    /\ on_step' = on_step \o StepCalls(j_i, Len(images), images[j_i].name)
    /\ j_i' = j_i + 1
    /\ UNCHANGED <<images, j_pc, ui_vars, w_vars, c_vars, e_vars>>

\* one iteration in which Image.open raises: the call ends there
ConvertRaises ==
    /\ j_pc = "loop" /\ j_i <= Len(images)
    /\ ~Decodable(images[j_i])
    /\ on_step' = Append(on_step, StepCalls(j_i, Len(images), images[j_i].name)[1])
    /\ j_pc' = "raised"
    /\ UNCHANGED <<images, out_files, out_dir, j_i, ui_vars, w_vars, c_vars, e_vars>>

\* return out_files
ConvertReturns ==
    /\ j_pc = "loop" /\ j_i > Len(images)
    /\ j_pc' = "returned"
    /\ UNCHANGED <<images, out_files, out_dir, on_step, j_i, ui_vars, w_vars,
                   c_vars, e_vars>>

NextJpegs == ConvertImage \/ ConvertRaises \/ ConvertReturns

SpecJpegs == InitJpegs /\ [][NextJpegs]_vars

(***************************************************************************)
(* build_epub_from_images: the tree it builds in its temporary directory,  *)
(* the package document, and the archive it writes.                        *)
(***************************************************************************)
\* largest number of JPEGs handed to one build
MaxJpegs == 3

N_mimetype == <<"m","i","m","e","t","y","p","e">>
N_META_INF == <<"M","E","T","A","-","I","N","F">>
N_OEBPS == <<"O","E","B","P","S">>
N_images == <<"i","m","a","g","e","s">>
N_container_xml == <<"c","o","n","t","a","i","n","e","r",".","x","m","l">>
N_cover_jpg == <<"c","o","v","e","r",".","j","p","g">>
N_cover_xhtml == <<"c","o","v","e","r",".","x","h","t","m","l">>
N_nav_xhtml == <<"n","a","v",".","x","h","t","m","l">>
N_content_opf == <<"c","o","n","t","e","n","t",".","o","p","f">>

\* xml.sax.saxutils.escape
RECURSIVE escape(_)
escape(t) ==
    IF t = <<>> THEN <<>>
    ELSE (IF t[1] = "&" THEN <<"&","a","m","p",";">>
          ELSE IF t[1] = "<" THEN <<"&","l","t",";">>
          ELSE IF t[1] = ">" THEN <<"&","g","t",";">>
          ELSE <<t[1]>>) \o escape(Tail(t))

\* str(uuid.uuid4()): the k-th token drawn; no two draws give the same token
Uuid4(k) == <<"u","u","i","d","4","-">> \o StrOf(k)

\* an entry of the temporary tree: dir is the path of its parent below root
Entry(dir, name, is_file, content) ==
    [dir |-> dir, name |-> name, is_file |-> is_file, content |-> content]

\* what a file holds: a fixed text, the file it refers to or was copied from,
\* and the title it carries
Content(text, ref, title) == [text |-> text, ref |-> ref, title |-> title]

NoContent == Content("", <<>>, <<>>)

\* an <item> of the manifest and an <itemref> of the spine
Item(id, href, media_type, properties) ==
    [id |-> id, href |-> href, media_type |-> media_type, properties |-> properties]

\* img_name = f"{page_no:05d}.jpg" and page_name = f"page_{page_no:05d}.xhtml"
ImgFileName(page_no) == ZeroPad(StrOf(page_no), PadWidth) \o JPG
PageFileName(page_no) ==
    <<"p","a","g","e","_">> \o ZeroPad(StrOf(page_no), PadWidth) \o <<".","x","h","t","m","l">>

\* a page loop that skips the first image whenever skip_cover_in_pages is set
StartIdxSkipOnly(cover, skip) == IF skip THEN 2 ELSE 1

\* a page loop that ignores skip_cover_in_pages
StartIdxAlwaysFirst(cover, skip) == 1

\* start_idx = 2 if (use_first_image_as_cover and skip_cover_in_pages) else 1
StartIdx(cover, skip) == IF cover /\ skip THEN 2 ELSE 1

\* the loop `for src_idx in range(start_idx, len(jpegs) + 1)` with its counter
\* page_no: the pages generated, in order
RECURSIVE PageLoop(_, _, _)
PageLoop(jpegs, src_idx, page_no) ==
    IF src_idx > Len(jpegs) THEN <<>>
    ELSE << [page_no |-> page_no, src_idx |-> src_idx, img |-> jpegs[src_idx],
             img_name |-> ImgFileName(page_no),
             page_name |-> PageFileName(page_no)] >>
         \o PageLoop(jpegs, src_idx + 1, page_no + 1)

\* the files the page loop writes, in the order it writes them
RECURSIVE PageFiles(_, _)
PageFiles(pages, safe_title) ==
    IF pages = <<>> THEN <<>>
    ELSE << Entry(<<N_OEBPS, N_images>>, pages[1].img_name, TRUE,
                  Content("jpeg", pages[1].img, <<>>)),
            Entry(<<N_OEBPS>>, pages[1].page_name, TRUE,
                  Content("page", <<"i","m","a","g","e","s","/">> \o pages[1].img_name,
                          safe_title)) >>
         \o PageFiles(Tail(pages), safe_title)

\* the manifest items the page loop appends
RECURSIVE PageItems(_)
PageItems(pages) ==
    IF pages = <<>> THEN <<>>
    ELSE << Item(<<"i","m","g">> \o StrOf(pages[1].page_no),
                 <<"i","m","a","g","e","s","/">> \o pages[1].img_name,
                 "image/jpeg", ""),
            Item(<<"p","a","g","e">> \o StrOf(pages[1].page_no),
                 pages[1].page_name, "application/xhtml+xml", "") >>
         \o PageItems(Tail(pages))

\* the spine entries the page loop appends
PageRefs(pages) == [k \in 1..Len(pages) |-> <<"p","a","g","e">> \o StrOf(pages[k].page_no)]

Reverse(seq) == [k \in 1..Len(seq) |-> seq[Len(seq) + 1 - k]]

\* the children of directory d, as the directory scan lists them: in the
\* order they were created, or in the reverse of it
Listing(tree, d, rev) ==
    LET own == SelectSeq(tree, LAMBDA e : e.dir = d)
    IN  IF rev THEN Reverse(own) ELSE own

\* root.rglob("*") below directory d: the children of d, then the walk of
\* each sub-directory of d
RECURSIVE RGlob(_, _, _)
RECURSIVE RGlobEach(_, _, _)
RGlob(tree, d, rev) ==
    LET ls == Listing(tree, d, rev)
    IN  ls \o RGlobEach(tree, SelectSeq(ls, LAMBDA e : ~e.is_file), rev)

RGlobEach(tree, subdirs, rev) ==
    IF subdirs = <<>> THEN <<>>
    ELSE RGlob(tree, Append(subdirs[1].dir, subdirs[1].name), rev)
         \o RGlobEach(tree, Tail(subdirs), rev)

\* ZipFile.write(p, arcname, compress_type): a file gets the method asked
\* for; a directory becomes an empty entry with the default method, stored
ZipWrite(p, compress_type) ==
    [arcname |-> Append(p.dir, p.name), is_dir |-> ~p.is_file,
     compress_type |-> IF p.is_file THEN compress_type ELSE "ZIP_STORED",
     content |-> p.content]

\* `with zipfile.ZipFile(out_epub, "w") as z`: mimetype first, then the walk
\* without the entries named mimetype
ZipTree(tree, rev) ==
    LET walk == SelectSeq(RGlob(tree, <<>>, rev), LAMBDA p : p.name # N_mimetype)
        mt == CHOOSE e \in SetOf(tree) : e.dir = <<>> /\ e.name = N_mimetype
    IN  << ZipWrite(mt, "ZIP_STORED") >>
        \o [k \in 1..Len(walk) |-> ZipWrite(walk[k], "ZIP_DEFLATED")]

\* the cover block: the files it writes, and what it appends to the manifest
\* and to the spine
CoverFiles(jpegs, safe_title) ==
    << Entry(<<N_OEBPS, N_images>>, N_cover_jpg, TRUE, Content("jpeg", jpegs[1], <<>>)),
       Entry(<<N_OEBPS>>, N_cover_xhtml, TRUE,
             Content("cover", <<"i","m","a","g","e","s","/">> \o N_cover_jpg, safe_title)) >>

CoverItems ==
    << Item(<<"c","o","v","e","r","i","m","g">>,
            <<"i","m","a","g","e","s","/">> \o N_cover_jpg, "image/jpeg", "cover-image"),
       Item(<<"c","o","v","e","r","p","a","g","e">>, N_cover_xhtml,
            "application/xhtml+xml", "") >>

\* a spine that lists the cover page after the pages
SpineCoverLast(cover, pages) ==
    PageRefs(pages) \o
    (IF cover THEN << <<"c","o","v","e","r","p","a","g","e">> >> ELSE <<>>)

\* spine_items: the cover page when there is a cover, then the pages
SpineItems(cover, pages) ==
    (IF cover THEN << <<"c","o","v","e","r","p","a","g","e">> >> ELSE <<>>)
    \o PageRefs(pages)

\* the <item> content.opf writes itself, ahead of manifest_items
NavItem == Item(<<"n","a","v">>, N_nav_xhtml, "application/xhtml+xml", "nav")

\* build_epub_from_images; book_id is the identifier the variant writes and
\* rev the order in which the directory scans of the final walk list entries
build_epub_from_images(jpegs, title, cover, skip, book_id, rev) ==
    IF jpegs = <<>>
    THEN [raised |-> "EPUB build: no images provided."]
    ELSE
    LET safe_title == escape(title)
        pages == PageLoop(jpegs, StartIdx(cover, skip), 1)
        manifest_items == (IF cover THEN CoverItems ELSE <<>>) \o PageItems(pages)
        spine_items == SpineItems(cover, pages)
        start_href == IF cover THEN N_cover_xhtml ELSE PageFileName(1)
        opf == [title |-> safe_title, language |-> "en", identifier |-> book_id,
                cover_meta |-> IF cover THEN <<"c","o","v","e","r","i","m","g">> ELSE <<>>,
                manifest |-> << NavItem >> \o manifest_items,
                spine |-> spine_items]
        tree ==
            << Entry(<<>>, N_META_INF, FALSE, NoContent),
               Entry(<<>>, N_OEBPS, FALSE, NoContent),
               Entry(<<N_OEBPS>>, N_images, FALSE, NoContent),
               Entry(<<>>, N_mimetype, TRUE, Content("application/epub+zip", <<>>, <<>>)),
               Entry(<<N_META_INF>>, N_container_xml, TRUE,
                     Content("container", <<"O","E","B","P","S","/">> \o N_content_opf, <<>>)) >>
            \o (IF cover THEN CoverFiles(jpegs, safe_title) ELSE <<>>)
            \o PageFiles(pages, safe_title)
            \o << Entry(<<N_OEBPS>>, N_nav_xhtml, TRUE, Content("nav", start_href, <<>>)),
                  Entry(<<N_OEBPS>>, N_content_opf, TRUE, Content("opf", <<>>, safe_title)) >>
    IN  [raised |-> "", jpegs |-> jpegs, title |-> title,
         use_first_image_as_cover |-> cover, skip_cover_in_pages |-> skip,
         pages |-> pages, opf |-> opf, tree |-> tree, zip |-> ZipTree(tree, rev)]

\* archive.stem of the archives a build is run for
Titles == { <<"c","2">>, <<"a","&","b">> }

\* the list convert_to_jpegs returns for n images
JpegList(n) == [k \in 1..n |-> OutName(k)]

InitEpub ==
    /\ MainWindowInit /\ seven_zip = "7z"
    /\ CollectIdle /\ JpegsIdle /\ EpubIdle

\* one call of build_epub_from_images of src/main.py
BuildEpub ==
    /\ Len(epubs) < 2
    /\ \E n \in 0..MaxJpegs, title \in Titles, cover, skip, rev \in BOOLEAN :
         epubs' = Append(epubs, build_epub_from_images(JpegList(n), title, cover, skip,
                                                       Uuid4(uuids + 1), rev))
    /\ uuids' = uuids + 1
    /\ UNCHANGED <<ui_vars, w_vars, c_vars, j_vars>>

\* one call of build_epub_from_images of src/ComixConvert.py: every image is
\* a page, and the identifier written is the escaped title
BuildEpubComixConvert ==
    /\ Len(epubs) < 2
    /\ \E n \in 0..MaxJpegs, title \in Titles, cover, rev \in BOOLEAN :
         epubs' = Append(epubs, build_epub_from_images(JpegList(n), title, cover, FALSE,
                                                       escape(title), rev))
    /\ UNCHANGED <<uuids, ui_vars, w_vars, c_vars, j_vars>>

NextEpub == BuildEpub \/ BuildEpubComixConvert

SpecEpub == InitEpub /\ [][NextEpub]_vars

(***************************************************************************)
(* The queue alone: add_paths, remove_selected and clear_list, with paths  *)
(* that name one file in two ways.                                         *)
(***************************************************************************)
\* the directory "l" is a link to the folder "a": l/<name> is a/<name>
LinkedInputs == { File("l", <<"c","2",".","c","b","z">>),
                  File("l", <<"c","1","0",".","C","B","Z">>) }

\* the file a path names (what Path.resolve() would return); add_paths never
\* calls it: `p not in self.files` compares the paths as they are spelled
Resolve(p) == IF p.dir = "l" THEN [p EXCEPT !.dir = "a"] ELSE p

\* what one drop or one file dialog can hand to add_paths in the queue model
QueueInputs == PathInputs \cup { <<p>> : p \in SameStemInputs \cup LinkedInputs }

\* the counter `added` of add_paths: one more for every append
Added(fs, paths, walk) == Len(AddEach(fs, paths, walk)) - Len(fs)

\* the line add_paths writes to the log
AddedLine(fs, paths, walk) ==
    IF Added(fs, paths, walk) # 0 THEN "added" ELSE "nothing_new"

\* add_paths, from a drop or from one of the two dialogs
AddToQueue ==
    /\ \E paths \in QueueInputs : \E walk \in Walks(paths) :
         files' = add_paths(files, paths, walk)
    /\ UNCHANGED <<seven_zip, chk_pdf, chk_epub, chk_cover, chk_skip_cover_page,
                   slider, btn_convert, inputs_enabled, startup_log,
                   finished_sig, w_vars, c_vars, j_vars, e_vars>>

NextQueue == AddToQueue \/ RemoveSelected \/ ClearList

SpecQueue == Init /\ [][NextQueue]_vars

(***************************************************************************)
(* The cover options, from the check boxes of the window to the book.      *)
(***************************************************************************)
\* the window with 7-Zip found, after the user has checked EPUB export and
\* set the two cover boxes
CoverWindow ==
    /\ seven_zip = "7z"
    /\ files = <<>>
    /\ chk_pdf = TRUE /\ chk_epub = TRUE
    /\ chk_cover \in BOOLEAN /\ chk_skip_cover_page \in BOOLEAN
    /\ slider = DefaultQuality
    /\ btn_convert = TRUE
    /\ inputs_enabled = TRUE
    /\ startup_log = "ready"
    /\ finished_sig = <<>>
    /\ worker = NoWorker /\ w_pc = "none"
    /\ ok = 0 /\ fail = 0 /\ failures = <<>> /\ total = 0 /\ idx = 0
    /\ n_imgs = 0 /\ img_i = 0 /\ exc = "" /\ tmpdirs = {}
    /\ jpeg_dir = <<>> /\ outputs = {}
    /\ emitted = <<>> /\ stage_log = <<>> /\ result = <<>>

InitCover == CoverWindow /\ CollectIdle /\ JpegsIdle /\ EpubIdle

\* the call of build_epub_from_images in ConvertWorker.run, with the two
\* flags of the worker start_convert constructs from the window
BuildEpubForWorker ==
    /\ Len(epubs) < 2
    /\ \E n \in 0..MaxJpegs, title \in Titles, rev \in BOOLEAN :
         epubs' = Append(epubs, build_epub_from_images(JpegList(n), title,
                                                       NewWorker.epub_cover,
                                                       NewWorker.epub_skip_cover_page,
                                                       Uuid4(uuids + 1), rev))
    /\ uuids' = uuids + 1
    /\ UNCHANGED <<ui_vars, w_vars, c_vars, j_vars>>

NextCover == BuildEpub \/ BuildEpubForWorker

SpecCover == InitCover /\ [][NextCover]_vars

(***************************************************************************)
(* The pipeline run twice on one archive: extraction, collect_images,      *)
(* convert_to_jpegs, images_to_pdf and build_epub_from_images.             *)
(***************************************************************************)
\* largest number of directory entries in the tree of the archive run twice
MaxTree == 2

\* the trees run_7z_extract can unpack the archive to
TwiceTrees == { S \in SUBSET TreeEntries : Cardinality(S) <= MaxTree }

\* the JPEGs convert_to_jpegs returns for the collected images: the k-th is
\* named by its index and renders the k-th image
Normalized(imgs) == [k \in 1..Len(imgs) |-> Jpeg(OutName(k), imgs[k])]

\* the pages img2pdf.convert writes for the list: one per JPEG, in list order
PdfPages(jpegs) == jpegs

\* the body of the `with` block of run() for one archive, after extraction:
\* what it raises, or the book it builds from the images collected
Pipeline(imgs, cover, skip, book_id, rev) ==
    IF imgs = <<>> THEN [raised |-> MsgNoImages]
    ELSE IF \E k \in 1..Len(imgs) : ~Decodable(imgs[k]) THEN [raised |-> MsgDecode]
    ELSE build_epub_from_images(JpegList(Len(imgs)), <<"c","2">>, cover, skip, book_id, rev)

\* the archive is extracted; the window holds the options of both runs
InitTwice ==
    /\ CoverWindow /\ JpegsIdle /\ EpubIdle
    /\ \E S \in TwiceTrees : walk1 \in Perms(S)
    /\ walk2 = <<>> /\ imgs1 = <<>> /\ imgs2 = <<>>
    /\ c_pc = "extracted"

\* the first run on the archive
RunPipeline ==
    /\ c_pc = "extracted"
    /\ imgs1' = collect_images(walk1)
    /\ \E rev \in BOOLEAN :
         epubs' = << Pipeline(imgs1', NewWorker.epub_cover, NewWorker.epub_skip_cover_page,
                              Uuid4(uuids + 1), rev) >>
    /\ uuids' = uuids + 1
    /\ c_pc' = "ran"
    /\ UNCHANGED <<walk1, walk2, imgs2, ui_vars, w_vars, j_vars>>

\* the second run: the archive is extracted again to the same files, which
\* the walk may enumerate in another order, and the options are the same
RunPipelineAgain ==
    /\ c_pc = "ran"
    /\ \E w \in Perms(SetOf(walk1)) :
         /\ walk2' = w
         /\ imgs2' = collect_images(w)
    /\ \E rev \in BOOLEAN :
         epubs' = Append(epubs, Pipeline(imgs2', NewWorker.epub_cover,
                                         NewWorker.epub_skip_cover_page,
                                         Uuid4(uuids + 1), rev))
    /\ uuids' = uuids + 1
    /\ c_pc' = "ran_again"
    /\ UNCHANGED <<walk1, imgs1, ui_vars, w_vars, j_vars>>

NextTwice == RunPipeline \/ RunPipelineAgain

SpecTwice == InitTwice /\ [][NextTwice]_vars

(***************************************************************************)
(* Properties.                                                             *)
(***************************************************************************)
LogsWith(tag) == SelectSeq(emitted, LAMBDA e : e.sig = "log" /\ e.tag = tag)

Signals(sig) == SelectSeq(emitted, LAMBDA e : e.sig = sig)

\* the position in `emitted` of the log line that starts item i
BeginPos(i) ==
    CHOOSE k \in 1..Len(emitted) :
        emitted[k].sig = "log" /\ emitted[k].tag = "extract" /\ emitted[k].a = i

\* the events emitted for item i: from its first log line to the last event
\* before the next item's file progress, or before the end-of-batch summary
ItemEvents(i) ==
    LET last == IF i < Len(LogsWith("extract")) THEN BeginPos(i + 1) - 3
                ELSE IF w_pc = "done"
                     THEN Len(emitted) - Len(EndEvents(ok, fail, failures))
                     ELSE Len(emitted)
    IN  SubSeq(emitted, BeginPos(i), last)

ItemRaised(i) ==
    \E k \in 1..Len(ItemEvents(i)) :
        ItemEvents(i)[k].sig = "log" /\ ItemEvents(i)[k].tag = "fail"

\* the stages run() has called for item i, in call order
ItemStages(i) ==
    LET own == SelectSeq(stage_log, LAMBDA e : e[1] = i)
    IN  [k \in 1..Len(own) |-> own[k][2]]

IsPrefix(a, b) == Len(a) <= Len(b) /\ a = SubSeq(b, 1, Len(a))

\* the items of the running batch that ended Failed, in processing order
FailedItems == SelectSeq([i \in 1..Len(result) |-> i], LAMBDA i : result[i] = "Failed")

InStage == w_pc \in {"extract", "collect", "jpeg", "pdf", "epub"}

\* an item has been begun and is not yet counted
InItem == InStage \/ w_pc \in {"exit_with", "item_ok", "except"}

\* what holds of the items of the running batch in every state
C1_ItemsInv ==
    LET begun == LogsWith("extract")
    IN  /\ \A k \in 1..Len(begun) :
             begun[k].a = k /\ begun[k].name = worker.files[k].name
        /\ \A a, b \in 1..Len(stage_log) : a < b => stage_log[a] # stage_log[b]
        /\ Len(result) <= Len(begun) /\ Len(begun) <= Len(result) + 1
        /\ \A i \in 1..Len(result) : (result[i] = "Failed") <=> ItemRaised(i)
        /\ w_pc = "done" =>
             /\ Len(begun) = Len(worker.files)
             /\ Len(result) = Len(worker.files)
             /\ Len(LogsWith("done")) = 1
             /\ Len(Signals("finished")) = 1

\* C1: every archive of the batch is processed exactly once, in queue order,
\* and no stage is called twice for an item; a failure marks only its own item
\* Failed and the next item is still started; every run that starts reaches the
\* end-of-batch summary and the finished signal.
C1_EveryItemOnce == []C1_ItemsInv /\ ((w_pc = "start") ~> (w_pc = "done"))

\* a batch of two in which the first item failed and the second was converted
C1_Witness ==
    w_pc = "done" /\ Len(worker.files) = 2 /\ result = <<"Failed", "Done">>

\* C2: ok + fail is the number of items in a terminal state; at the end of a
\* batch of K items of which M raised, finished reports ok = K - M and
\* fail = M, and the failure list holds one (name, message) pair per failed
\* item, in processing order, and none for an item that succeeded.
C2_Aggregation ==
    LET failLogs == LogsWith("fail")
        K == Len(worker.files)
        M == Len(FailedItems)
    IN  /\ ok + fail = Len(result)
        /\ Len(failures) = M
        /\ Len(failLogs) = M
        /\ \A k \in 1..Len(failures) :
             k <= M =>
               /\ failures[k].name = worker.files[FailedItems[k]].name
               /\ failures[k].msg = failLogs[k].msg
        /\ w_pc = "done" =>
             /\ Len(result) = K
             /\ ok = K - M /\ fail = M
             /\ emitted[Len(emitted)] = Finished(K - M, M)
             /\ finished_sig = << Finished(K - M, M) >>

C2_Witness ==
    /\ w_pc = "done" /\ ok = 1 /\ fail = 1
    /\ result = <<"Done", "Failed">>
    /\ failures = << [name |-> worker.files[2].name, msg |-> MsgEpub] >>

\* C3: the end-of-batch summary lists the first 10 failures and, when more
\* than 10 items failed, also a truncation note; with 10 or fewer failures all
\* are listed and there is no note.
C3_SummaryTruncation ==
    w_pc = "done" =>
      LET lines == LogsWith("failure")
          notes == LogsWith("truncated")
          shown == IF Len(failures) < SummaryLimit THEN Len(failures) ELSE SummaryLimit
      IN  /\ Len(lines) = shown
          /\ \A k \in 1..Len(lines) :
               k <= shown =>
                 lines[k].name = failures[k].name /\ lines[k].msg = failures[k].msg
          /\ (Len(failures) > SummaryLimit) <=> (Len(notes) >= 1)

\* C4: at most one scratch workspace exists, and it is the current item's: it
\* exists from before extraction through every stage, and it is gone when the
\* item is counted as OK or FAIL, while the next item is begun and after the
\* batch.
C4_Workspace ==
    /\ Cardinality(tmpdirs) <= 1
    /\ tmpdirs # {} => tmpdirs = {idx} /\ (InStage \/ w_pc = "exit_with")
    /\ InStage => tmpdirs = {idx}
    /\ w_pc \in {"item_ok", "except", "loop", "done", "start", "none"} => tmpdirs = {}
    /\ \A i \in tmpdirs : i > Len(result)

\* the second item is in its EPUB stage, in its own workspace, after the first
\* item failed
C4_Witness ==
    w_pc = "epub" /\ idx = 2 /\ tmpdirs = {2} /\ result = <<"Failed">>

\* the stages that are enabled for the running batch, in pipeline order
StageOrder ==
    <<"extract", "collect", "normalize">>
    \o (IF worker.export_pdf THEN <<"pdf">> ELSE <<>>)
    \o (IF worker.export_epub THEN <<"epub">> ELSE <<>>)

\* C5: the stages of an item run in the order extract, collect, normalize,
\* PDF, EPUB, each after the earlier ones returned; the PDF (EPUB) stage runs
\* iff its export flag is set; the item ends Done (all enabled stages ran and
\* returned) or Failed (a stage raised), once, and no stage runs once an
\* exception is in flight or the item is terminal.
C5_StageOrder ==
    /\ \A a, b \in 1..Len(stage_log) : a < b => stage_log[a][1] <= stage_log[b][1]
    /\ \A k \in 1..Len(stage_log) :
         /\ stage_log[k][1] <= Len(result) + 1
         /\ stage_log[k][1] = Len(result) + 1 => InItem
    /\ \A i \in 1..Len(worker.files) : IsPrefix(ItemStages(i), StageOrder)
    /\ \A i \in 1..Len(result) :
         /\ result[i] \in {"Done", "Failed"}
         /\ result[i] = "Done" => ItemStages(i) = StageOrder /\ ~ItemRaised(i)
         /\ result[i] = "Failed" => ItemRaised(i) /\ ItemStages(i) # <<>>
    /\ exc # "" => w_pc \in {"exit_with", "except"}
    /\ w_pc = "collect" => ItemStages(idx) = <<"extract">>
    /\ w_pc = "jpeg" /\ img_i = 1 => ItemStages(idx) = <<"extract", "collect">>
    /\ w_pc = "pdf" => ItemStages(idx) = <<"extract", "collect", "normalize">>
    /\ w_pc = "item_ok" => ItemStages(idx) = StageOrder

\* an EPUB-only batch whose first item was converted and whose second failed
\* in the EPUB stage
C5_Witness ==
    /\ w_pc = "done" /\ ~worker.export_pdf /\ worker.export_epub
    /\ result = <<"Done", "Failed">>
    /\ ItemStages(1) = <<"extract", "collect", "normalize", "epub">>
    /\ ItemStages(2) = <<"extract", "collect", "normalize", "epub">>

\* C6: item i of K yields the file progress event (i-1, K) before it is
\* processed and (i, K) after it is terminal, and no other; so the current
\* value never decreases, never exceeds the total, and the last file progress
\* event of a batch is (K, K).
C6_FileProgress ==
    LET pe == Signals("progress")
        K == Len(worker.files)
    IN  /\ \A k \in 1..Len(pe) : pe[k].b = K /\ pe[k].a = k \div 2 /\ pe[k].a <= pe[k].b
        /\ \A k \in 1..Len(pe) : k > 1 => pe[k - 1].a <= pe[k].a
        /\ Len(pe) = 2 * Len(result) + (IF InItem THEN 1 ELSE 0)
        /\ \A i \in 1..Len(LogsWith("extract")) :
             /\ emitted[BeginPos(i) - 2] = Progress(i - 1, K)
             /\ i <= Len(result) =>
                  ItemEvents(i)[Len(ItemEvents(i))] = Progress(i, K)
        /\ w_pc = "done" => Len(pe) = 2 * K /\ pe[Len(pe)] = Progress(K, K)

C6_Witness ==
    /\ w_pc = "done" /\ fail = 1 /\ ok = 1
    /\ Signals("progress") = << Progress(0, 2), Progress(1, 2), Progress(1, 2), Progress(2, 2) >>

\* C7: run() emits finished exactly once, as its last signal: nothing at all
\* is emitted after it.
C7_FinishedLast ==
    /\ \A k \in 1..Len(emitted) :
         emitted[k].sig = "finished" => k = Len(emitted) /\ w_pc = "done"
    /\ w_pc = "done" => emitted[Len(emitted)].sig = "finished"
    /\ Len(finished_sig) <= 1
    /\ finished_sig # <<>> => w_pc = "done" /\ finished_sig[1] = emitted[Len(emitted)]

C7_Witness ==
    /\ w_pc = "done" /\ fail = 2
    /\ emitted[Len(emitted)] = Finished(0, 2)
    /\ emitted[Len(emitted) - 1] = SubProgress(0, 0)

\* C8: without an extraction tool no batch is started, whatever the user
\* does: no worker exists, nothing is emitted, no stage is called, and the
\* missing tool is reported.
C8_NoToolNoBatch ==
    seven_zip = "none" =>
      /\ worker = NoWorker /\ w_pc = "none"
      /\ emitted = <<>> /\ stage_log = <<>> /\ tmpdirs = {}
      /\ finished_sig = <<>>
      /\ ~btn_convert
      /\ startup_log = "warning_no_7z"

\* no tool, a queue of two archives, EPUB export selected
C8_Witness ==
    seven_zip = "none" /\ Len(files) = 2 /\ chk_epub /\ chk_pdf /\ inputs_enabled

\* the name ends, whatever the case, with a dot and one of the image
\* extensions, after at least one other character
HasImageExtension(name) ==
    \E e \in IMAGE_EXTS :
        /\ Len(name) > Len(e)
        /\ Lower(SubSeq(name, Len(name) - Len(e) + 1, Len(name))) = e

AllDigits(s) == s # <<>> /\ \A k \in 1..Len(s) : IsDigit(s[k])

\* a and b are pre ++ A ++ post and pre ++ B ++ post for two maximal digit
\* runs A and B with int(A) < int(B)
SmallerInOneRun(a, b) ==
    \E u \in 0..Len(a), la \in 1..Len(a), lb \in 1..Len(b) :
        /\ u + la <= Len(a) /\ u + lb <= Len(b)
        /\ SubSeq(a, 1, u) = SubSeq(b, 1, u)
        /\ SubSeq(a, u + la + 1, Len(a)) = SubSeq(b, u + lb + 1, Len(b))
        /\ AllDigits(SubSeq(a, u + 1, u + la))
        /\ AllDigits(SubSeq(b, u + 1, u + lb))
        /\ u > 0 => ~IsDigit(a[u])
        /\ u + la < Len(a) => ~IsDigit(a[u + la + 1])
        /\ IntOf(SubSeq(a, u + 1, u + la)) < IntOf(SubSeq(b, u + 1, u + lb))

P1 == File("x", <<"p","1",".","j","p","g">>)
P2 == File("x", <<"p","2",".","j","p","g">>)
P10 == File("x", <<"p","1","0",".","j","p","g">>)

\* C9: collect_images returns exactly the files with an image extension
\* (case-insensitive), each once, in non-decreasing order of the natural key;
\* of two names that differ in one digit run only, the smaller number is first;
\* p2, p10, p1 come out as p1, p2, p10.
C9_CollectSorted ==
    c_pc # "extracted" =>
      /\ SetOf(imgs1) = { e \in SetOf(walk1) : e.is_file /\ HasImageExtension(e.name) }
      /\ \A i, j \in 1..Len(imgs1) : i < j =>
           /\ imgs1[i] # imgs1[j]
           /\ ~KeyLess(SplitRuns(Lower(imgs1[j].name)), SplitRuns(Lower(imgs1[i].name)), 1)
           /\ ~SmallerInOneRun(imgs1[j].name, imgs1[i].name)
      /\ SetOf(walk1) = {P1, P2, P10} => imgs1 = <<P1, P2, P10>>

C9_Witness ==
    c_pc = "collected" /\ walk1 = <<P2, P10, P1>> /\ imgs1 = <<P1, P2, P10>>

\* C10: the sequence collect_images returns depends on the set of files only,
\* not on the order in which the walk enumerates them.
C10_WalkOrderIrrelevant ==
    c_pc = "recollected" => imgs1 = imgs2
(***************************************************************************)
(* C11..C20.                                                               *)
(***************************************************************************)
\* the name is five decimal digits that read k, followed by ".jpg"
IsNumbered(name, k) ==
    /\ Len(name) = 9
    /\ \A c \in 1..5 : IsDigit(name[c])
    /\ IntOf(SubSeq(name, 1, 5)) = k
    /\ SubSeq(name, 6, 9) = <<".","j","p","g">>

\* C11: when convert_to_jpegs returns for N decodable images, it returns N
\* paths; the k-th is named by the 5-digit zero-padded number k and is the
\* file saved from the k-th input, so the numbers run 1..N with no gap and
\* no duplicate whatever the source names are; nothing else is in the
\* output directory.
C11_JpegNumbering ==
    j_pc = "returned" =>
        /\ Len(out_files) = Len(images)
        /\ \A k \in 1..Len(images) :
             /\ IsNumbered(out_files[k], k)
             /\ Jpeg(out_files[k], images[k]) \in out_dir
        /\ \A a, b \in 1..Len(out_files) : a # b => out_files[a] # out_files[b]
        /\ Cardinality(out_dir) = Len(images)

\* three images whose names tie in the natural order and carry other numbers
\* than their positions have been converted
C11_Witness ==
    /\ j_pc = "returned"
    /\ Len(images) = 3
    /\ images[1].name = <<"P","0","2",".","J","P","G">>
    /\ images[3].name = <<"p","1","0",".","j","p","g">>
    /\ out_files[3] = <<"0","0","0","0","3",".","j","p","g">>

\* the failure record of the counted item i, which ended Failed
FailureOf(i) == failures[Cardinality({ j \in 1..i : result[j] = "Failed" })]

\* the status events the image callback emitted for item i
JpegSteps(i) ==
    SelectSeq(ItemEvents(i), LAMBDA e : e.sig = "status" /\ e.tag = "jpeg")

\* the files of the output folder that item i wrote last
OutputsOf(i) == { f \in outputs : f.item = i }

\* C12: when decoding of the k-th image fails, the call raises there: images
\* 1..k-1 are the only ones saved, the callback has announced image k and no
\* later one, the item ends Failed with the decoder's message in the failure
\* list, its stages stop at normalization (no PDF stage, no EPUB stage), and
\* the loop goes on to the next item.
C12_DecodeFailure ==
    /\ w_pc = "exit_with" /\ exc = MsgDecode =>
          /\ img_i <= n_imgs
          /\ jpeg_dir = [k \in 1..(img_i - 1) |-> OutName(k)]
          /\ Len(JpegSteps(idx)) = 2 * img_i - 1
          /\ JpegSteps(idx)[2 * img_i - 1] =
                Ev("status", "jpeg", img_i - 1, n_imgs, ImgName(img_i), "")
          /\ OutputsOf(idx) = {}
    /\ \A i \in 1..Len(result) :
          result[i] = "Failed" /\ FailureOf(i).msg = MsgDecode =>
              /\ FailureOf(i).name = worker.files[i].name
              /\ ItemStages(i) = <<"extract", "collect", "normalize">>
              /\ Len(JpegSteps(i)) % 2 = 1
              /\ OutputsOf(i) = {}
              /\ i < Len(worker.files) /\ i = Len(result) /\ w_pc = "loop" => idx = i + 1
              /\ i < Len(worker.files) /\ w_pc = "done" =>
                    Len(LogsWith("extract")) = Len(worker.files)

\* the first of two images of the first item could not be decoded, and the
\* second item was converted
C12_Witness ==
    /\ w_pc = "done" /\ result = <<"Failed", "Done">>
    /\ failures[1].msg = MsgDecode
    /\ Len(JpegSteps(1)) = 1 /\ JpegSteps(1)[1].b = 2

\* collect_images has run for the item in progress
Collected == \E k \in 1..Len(stage_log) : stage_log[k] = <<idx, "collect">>

\* C13: when extraction returns and collect_images finds no image, the item
\* ends Failed with the "no images" message in the failure list; normalization,
\* the PDF stage and the EPUB stage do not run for it, it writes no output
\* file, and the loop goes on to the next item.
C13_NoImages ==
    /\ InItem /\ w_pc # "collect" /\ Collected /\ n_imgs = 0 =>
          /\ w_pc \in {"exit_with", "except"}
          /\ exc = MsgNoImages
          /\ ItemStages(idx) = <<"extract", "collect">>
          /\ JpegSteps(idx) = <<>>
          /\ OutputsOf(idx) = {}
    /\ \A i \in 1..Len(result) :
          result[i] = "Failed" /\ FailureOf(i).msg = MsgNoImages =>
              /\ FailureOf(i).name = worker.files[i].name
              /\ ItemStages(i) = <<"extract", "collect">>
              /\ JpegSteps(i) = <<>>
              /\ OutputsOf(i) = {}
              /\ i < Len(worker.files) /\ i = Len(result) /\ w_pc = "loop" => idx = i + 1
              /\ i < Len(worker.files) /\ w_pc = "done" =>
                    Len(LogsWith("extract")) = Len(worker.files)

\* the first archive held no image, the second was converted to a PDF
C13_Witness ==
    /\ w_pc = "done" /\ result = <<"Failed", "Done">>
    /\ failures = << [name |-> worker.files[1].name, msg |-> MsgNoImages] >>
    /\ ItemStages(1) = <<"extract", "collect">>
    /\ \E f \in outputs : f.item = 2 /\ f.whole

IsPdf(f) == Suffix(f.name) = <<".","p","d","f">>
IsEpub(f) == Suffix(f.name) = <<".","e","p","u","b">>

\* C14: images_to_pdf leaves no partial file: when the PDF stage has raised,
\* the item's output path has not been created or modified by the call, and
\* a PDF exists in the output folder only as a whole file.
C14_NoPartialPdf ==
    /\ w_pc = "exit_with" /\ exc = MsgPdf =>
          \A f \in OutputsOf(idx) : f.name # PdfName(Archive(idx))
    /\ \A f \in outputs : IsPdf(f) => f.whole

\* the calls of build_epub_from_images that wrote a book
Built == { k \in 1..Len(epubs) : epubs[k].raised = "" }

\* C15: the archive's first entry is named exactly mimetype, is stored without
\* compression and holds exactly application/epub+zip; no other entry has
\* that name; every other entry, the directory entries of the walk included,
\* is deflate-compressed.
C15_MimetypeFirst ==
    \A b \in Built :
        LET z == epubs[b].zip
        IN  /\ z[1].arcname = << N_mimetype >>
            /\ z[1].compress_type = "ZIP_STORED"
            /\ z[1].content.text = "application/epub+zip"
            /\ \A k \in 2..Len(z) :
                 /\ z[k].arcname # << N_mimetype >>
                 /\ z[k].compress_type = "ZIP_DEFLATED"

\* the file <dir>/<name> of the tree a build made
TreeFile(book, dir, name) ==
    { e \in SetOf(book.tree) : e.is_file /\ e.dir = dir /\ e.name = name }

\* the name is "page_", five decimal digits that read k, and ".xhtml"
IsPageName(name, k) ==
    /\ Len(name) = 16
    /\ SubSeq(name, 1, 5) = <<"p","a","g","e","_">>
    /\ \A c \in 6..10 : IsDigit(name[c])
    /\ IntOf(SubSeq(name, 6, 10)) = k
    /\ SubSeq(name, 11, 16) = <<".","x","h","t","m","l">>

\* C16: a build for N >= 1 images generates, when use-cover and
\* skip-cover-as-page are both set, N-1 pages of which page k embeds source
\* image k+1, and otherwise N pages of which page k embeds source image k;
\* page k has the page file and the image file numbered k, so the numbers run
\* from 1 with no gap and no duplicate.
C16_PageGeneration ==
    \A b \in Built :
        LET book == epubs[b]
            N == Len(book.jpegs)
            shift == IF book.use_first_image_as_cover /\ book.skip_cover_in_pages
                     THEN 1 ELSE 0
        IN  /\ N >= 1
            /\ Len(book.pages) = N - shift
            /\ \A k \in 1..Len(book.pages) :
                 LET pg == book.pages[k]
                 IN  /\ pg.page_no = k
                     /\ IsNumbered(pg.img_name, k)
                     /\ IsPageName(pg.page_name, k)
                     /\ pg.img = book.jpegs[k + shift]
                     /\ \E f \in TreeFile(book, <<N_OEBPS, N_images>>, pg.img_name) :
                          f.content.ref = book.jpegs[k + shift]
                     /\ \E f \in TreeFile(book, <<N_OEBPS>>, pg.page_name) :
                          f.content.ref = <<"i","m","a","g","e","s","/">> \o pg.img_name
            /\ Cardinality({ e \in SetOf(book.tree) :
                               e.is_file /\ e.dir = <<N_OEBPS>>
                               /\ SubSeq(e.name, 1, 5) = <<"p","a","g","e","_">> })
                 = N - shift

\* a book of three images with the cover skipped, and a cover-only book
C16_Witness ==
    /\ \E b \in Built :
         /\ Len(epubs[b].jpegs) = 3
         /\ epubs[b].use_first_image_as_cover /\ epubs[b].skip_cover_in_pages
         /\ Len(epubs[b].pages) = 2
         /\ epubs[b].pages[2].img = <<"0","0","0","0","3",".","j","p","g">>
    /\ \E b \in Built :
         /\ Len(epubs[b].jpegs) = 1
         /\ epubs[b].use_first_image_as_cover /\ epubs[b].skip_cover_in_pages
         /\ epubs[b].pages = <<>>

\* the file of the tree a manifest href names, relative to OEBPS
HrefFile(book, href) ==
    IF Len(href) > 7 /\ SubSeq(href, 1, 7) = <<"i","m","a","g","e","s","/">>
    THEN TreeFile(book, <<N_OEBPS, N_images>>, SubSeq(href, 8, Len(href)))
    ELSE TreeFile(book, <<N_OEBPS>>, href)

\* the manifest items of a book with the id `id`
ItemsWithId(book, id) ==
    { k \in 1..Len(book.opf.manifest) : book.opf.manifest[k].id = id }

Declares(book, it) == \E k \in 1..Len(book.opf.manifest) : book.opf.manifest[k] = it

\* C17: the spine is the cover page (iff use-cover) followed by page1..pageP in
\* increasing page number; every itemref names an id the manifest declares
\* exactly once; the manifest declares nav, every page and every page image,
\* and, iff use-cover, the cover image with the cover-image property and the
\* cover page; no two manifest items share an id.
C17_ManifestSpine ==
    \A b \in Built :
        LET book == epubs[b]
            cover == book.use_first_image_as_cover
            P == Len(book.pages)
            sp == book.opf.spine
            mf == book.opf.manifest
            c == IF cover THEN 1 ELSE 0
            coverimg == <<"c","o","v","e","r","i","m","g">>
            coverpage == <<"c","o","v","e","r","p","a","g","e">>
        IN  /\ Len(sp) = P + c
            /\ cover => sp[1] = coverpage
            /\ \A k \in 1..P : sp[k + c] = <<"p","a","g","e">> \o StrOf(k)
            /\ \A k \in 1..Len(sp) : Cardinality(ItemsWithId(book, sp[k])) = 1
            /\ \A x, y \in 1..Len(mf) : x # y => mf[x].id # mf[y].id
            /\ Declares(book, Item(<<"n","a","v">>, N_nav_xhtml,
                                   "application/xhtml+xml", "nav"))
            /\ \A k \in 1..P :
                 /\ Declares(book, Item(<<"p","a","g","e">> \o StrOf(k),
                                        book.pages[k].page_name,
                                        "application/xhtml+xml", ""))
                 /\ Declares(book, Item(<<"i","m","g">> \o StrOf(k),
                                        <<"i","m","a","g","e","s","/">>
                                            \o book.pages[k].img_name,
                                        "image/jpeg", ""))
            /\ cover <=>
                 Declares(book, Item(coverimg, <<"i","m","a","g","e","s","/">> \o N_cover_jpg,
                                     "image/jpeg", "cover-image"))
            /\ cover <=>
                 Declares(book, Item(coverpage, N_cover_xhtml,
                                     "application/xhtml+xml", ""))
            /\ \A k \in 1..Len(mf) : mf[k].properties = "cover-image" => cover
            /\ Len(mf) = 1 + 2 * P + 2 * c
            /\ \A k \in 1..Len(mf) : HrefFile(book, mf[k].href) # {}

\* a book with a cover and two pages, and a book without a cover
C17_Witness ==
    /\ \E b \in Built :
         /\ epubs[b].use_first_image_as_cover /\ ~epubs[b].skip_cover_in_pages
         /\ Len(epubs[b].opf.spine) = 3
         /\ epubs[b].opf.spine[3] = <<"p","a","g","e","2">>
    /\ \E b \in Built :
         /\ ~epubs[b].use_first_image_as_cover
         /\ epubs[b].opf.spine[1] = <<"p","a","g","e","1">>

\* C18: every build writes a freshly generated identifier: no two builds
\* carry the same identifier, whatever their titles, and the identifier is not
\* made from the title.
C18_FreshIdentifier ==
    /\ \A a, b \in Built :
         a # b => epubs[a].opf.identifier # epubs[b].opf.identifier
    /\ \A b \in Built : epubs[b].opf.identifier # escape(epubs[b].title)

\* the whole files of the output folder that a successful item wrote
KeptOutputs(kind(_)) ==
    { f \in outputs : kind(f) /\ f.whole /\ result[f.item] = "Done" }

\* C19: at the end of a batch the output folder holds, for every archive that
\* ended Done, the PDF (when export-PDF is set) and the EPUB (when export-EPUB
\* is set) that item wrote, under the archive's base name; so the number of
\* PDF (EPUB) files equals the ok count and no successful item's output has
\* been overwritten by another item of the batch.
C19_OnePerSuccess ==
    w_pc = "done" =>
        /\ \A i \in 1..Len(result) :
             result[i] = "Done" =>
                 /\ worker.export_pdf =>
                      OutFile(PdfName(worker.files[i]), i, TRUE) \in outputs
                 /\ worker.export_epub =>
                      OutFile(EpubName(worker.files[i]), i, TRUE) \in outputs
        /\ worker.export_pdf => Cardinality(KeptOutputs(IsPdf)) = ok
        /\ worker.export_epub => Cardinality(KeptOutputs(IsEpub)) = ok

\* C20: an item that ends Failed leaves no persisted artifact: once it is
\* counted as FAIL, the output folder holds no PDF and no EPUB created or
\* modified by it, whichever stage raised; in particular an EPUB-stage
\* failure does not leave the item's PDF behind.
C20_FailedLeavesNothing ==
    \A i \in 1..Len(result) : result[i] = "Failed" => OutputsOf(i) = {}

(***************************************************************************)
(* C21..C26.                                                               *)
(***************************************************************************)
\* C23: for the i-th of N images the callback is called once with
\* (i-1, N, name) before the image is processed and once with (i, N, name)
\* after it is saved, in image order and for no other image; so the current
\* value never decreases, never exceeds N, is (N, N) last when the call
\* returns, and when image k cannot be decoded the last call is
\* (k-1, N, name of image k), with no call after it.
C23_ImageCallbacks ==
    LET N == Len(images)
        done == Len(out_files)
    IN  /\ \A i \in 1..done :
             /\ on_step[2 * i - 1] = <<i - 1, N, images[i].name>>
             /\ on_step[2 * i] = <<i, N, images[i].name>>
        /\ \A c \in 1..Len(on_step) : on_step[c][1] <= N /\ on_step[c][2] = N
        /\ \A c \in 1..(Len(on_step) - 1) : on_step[c][1] <= on_step[c + 1][1]
        /\ j_pc = "loop" => Len(on_step) = 2 * done
        /\ j_pc = "returned" =>
             /\ done = N /\ Len(on_step) = 2 * N
             /\ N > 0 => on_step[Len(on_step)][1] = N
        /\ j_pc = "raised" =>
             /\ done = j_i - 1
             /\ Len(on_step) = 2 * j_i - 1
             /\ on_step[Len(on_step)] = <<j_i - 1, N, images[j_i].name>>

\* three images of which the third could not be decoded
C23_Witness ==
    /\ j_pc = "raised" /\ Len(images) = 3 /\ j_i = 3
    /\ Len(on_step) = 5
    /\ on_step[4] = <<2, 3, <<"p","2",".","j","p","g">> >>
    /\ on_step[5] = <<2, 3, <<"p","2",".","j","p","g">> >>
    /\ images[3].dir = "x/s"

\* the navigation target of a book: what nav.xhtml links to
NavTarget(book) ==
    { e.content.ref : e \in TreeFile(book, <<N_OEBPS>>, N_nav_xhtml) }

\* C24: without a cover, skip-cover-as-page changes nothing: two books built
\* from the same images and title with use_first_image_as_cover false have
\* the same pages, manifest, spine and navigation target whatever their
\* skip_cover_in_pages; every image is a page and the navigation entry points
\* to page 1. The worker start_convert constructs gets skip-cover-as-page
\* true only when use-cover is checked too.
C24_SkipNeedsCover ==
    /\ \A a, b \in Built :
         ( /\ ~epubs[a].use_first_image_as_cover
           /\ ~epubs[b].use_first_image_as_cover
           /\ epubs[a].jpegs = epubs[b].jpegs
           /\ epubs[a].title = epubs[b].title )
         => /\ epubs[a].pages = epubs[b].pages
            /\ epubs[a].opf.manifest = epubs[b].opf.manifest
            /\ epubs[a].opf.spine = epubs[b].opf.spine
            /\ NavTarget(epubs[a]) = NavTarget(epubs[b])
    /\ \A b \in Built :
         ~epubs[b].use_first_image_as_cover
         => /\ Len(epubs[b].pages) = Len(epubs[b].jpegs)
            /\ \A k \in 1..Len(epubs[b].pages) :
                 /\ epubs[b].pages[k].src_idx = k
                 /\ epubs[b].pages[k].img = epubs[b].jpegs[k]
            /\ NavTarget(epubs[b]) = { PageFileName(1) }
    /\ NewWorker.epub_skip_cover_page => chk_cover
    /\ NewWorker.epub_skip_cover_page = (chk_cover /\ chk_skip_cover_page)
    /\ NewWorker.epub_cover = chk_cover

\* skip is checked in the window and cover is not; a book built with skip
\* true and a book built with skip false, from the same three images
C24_Witness ==
    /\ ~chk_cover /\ chk_skip_cover_page
    /\ Len(epubs) = 2 /\ Built = {1, 2}
    /\ epubs[1].jpegs = JpegList(3) /\ epubs[2].jpegs = JpegList(3)
    /\ epubs[1].title = epubs[2].title
    /\ ~epubs[1].use_first_image_as_cover /\ ~epubs[2].use_first_image_as_cover
    /\ epubs[1].skip_cover_in_pages /\ ~epubs[2].skip_cover_in_pages
    /\ Len(epubs[1].pages) = 3

\* a worker exists: start_convert has made it and its finished signal has
\* not been delivered to the window yet
WorkerLive == w_pc # "none"

\* C25: at most one ConvertWorker runs at any time. While a worker is live the
\* convert button is disabled, and no step starts a batch or replaces the
\* worker, whatever the user drops or clicks; the worker goes away only when
\* its finished signal is delivered, and that step enables the convert
\* button again; a batch is started only from a state without a worker, by
\* the enabled convert button.
C25_OneWorker ==
    /\ [](WorkerLive => ~btn_convert /\ worker # NoWorker /\ Len(finished_sig) <= 1)
    /\ [][ /\ (WorkerLive /\ w_pc' = "start")
              => (w_pc = "start" /\ worker' = worker /\ emitted' = emitted)
           /\ (WorkerLive /\ WorkerLive') => worker' = worker
           /\ (WorkerLive /\ ~WorkerLive')
              => /\ w_pc = "done" /\ finished_sig # <<>>
                 /\ finished_sig' = Tail(finished_sig)
                 /\ btn_convert'
           /\ (~WorkerLive /\ WorkerLive')
              => (btn_convert /\ w_pc' = "start" /\ ~btn_convert') ]_vars

\* run() has returned and emitted finished, the signal is not delivered yet,
\* and paths were dropped meanwhile: the convert button is still disabled
C25_Witness ==
    /\ w_pc = "done" /\ finished_sig # <<>>
    /\ ~btn_convert
    /\ Len(worker.files) = 1 /\ Len(files) = 2

\* C26: the worker's items and options are the snapshot start_convert takes:
\* the worker is constructed from the queue and the option widgets as they are
\* at that step, it does not change while it lives, whatever is dropped on
\* the window meanwhile, the items it begins are those of the snapshot in
\* their order, and every progress event carries the K of the snapshot.
C26_Snapshot ==
    /\ [](WorkerLive =>
            LET begun == LogsWith("extract")
                pe == Signals("progress")
                K == Len(worker.files)
            IN  /\ \A k \in 1..Len(begun) :
                     begun[k].a = k /\ begun[k].b = K
                     /\ begun[k].name = worker.files[k].name
                /\ Len(begun) <= K
                /\ \A k \in 1..Len(pe) : pe[k].b = K
                /\ w_pc # "start" => total = K
                /\ \A k \in 1..Len(LogsWith("quality")) :
                     LogsWith("quality")[k].a = worker.quality)
    /\ [][ /\ (~WorkerLive /\ WorkerLive')
              => /\ worker'.files = files
                 /\ worker'.quality = slider
                 /\ worker'.export_pdf = chk_pdf
                 /\ worker'.export_epub = chk_epub
                 /\ worker'.epub_cover = chk_cover
                 /\ worker'.epub_skip_cover_page = (chk_cover /\ chk_skip_cover_page)
           /\ (WorkerLive /\ WorkerLive') => worker' = worker ]_vars

\* a batch of one archive has ended; during the run an archive that sorts
\* before it was dropped, and the queue now differs from the snapshot
C26_Witness ==
    /\ w_pc = "done"
    /\ Len(worker.files) = 1 /\ Len(files) = 2
    /\ files[1] # worker.files[1] /\ files[2] = worker.files[1]
    /\ Signals("progress") = << Progress(0, 1), Progress(1, 1) >>
    /\ LogsWith("extract")[1].name = worker.files[1].name

\* C22: after any sequence of queue operations the queue holds no two paths
\* that resolve to the same file, and only paths with a supported archive
\* extension; adding a path of the queue again, or another path of a file of
\* the queue, leaves the queue as it is and reports nothing added.
C22_QueueUnique ==
    /\ \A i, j \in 1..Len(files) :
         i # j => Resolve(files[i]) # Resolve(files[j])
    /\ \A i \in 1..Len(files) : Lower(Suffix(files[i].name)) \in SUPPORTED_EXTS
    /\ \A q \in QueueInputs :
         (q[1].is_file /\ \E i \in 1..Len(files) : Resolve(q[1]) = Resolve(files[i]))
         => /\ add_paths(files, q, <<>>) = files
            /\ AddedLine(files, q, <<>>) = "nothing_new"

\* the image each page of a book renders, given the images collected
PageImages(book, imgs) ==
    [k \in 1..Len(book.pages) |-> imgs[book.pages[k].src_idx]]

====
